---------------------------- MODULE Spec2Model ----------------------------
(***************************************************************************)
(* Model of jenkins/python/release_gate.py: the release gate that decides, *)
(* per mode, whether the outputs of the security pipeline permit a         *)
(* release.                                                                *)
(*                                                                         *)
(* Text is modelled as a sequence of one-character strings so that the     *)
(* code's upper(), lower(), strip() and substring tests are computed, not  *)
(* assumed.  A findings list is held run-length encoded: a sequence of     *)
(* runs [f |-> finding, n |-> repetitions], which stands for the list in   *)
(* which each finding is repeated n times in place.                        *)
(***************************************************************************)
EXTENDS Integers, Sequences, FiniteSets, TLC

(***************************************************************************)
(* Exit codes (release_gate.py lines 8-16).                                *)
(***************************************************************************)
PASS == 0
E_POLICY_FAIL == 10
\* The code of another failure, written where the critical one belongs.
CriticalCode_Slip == E_POLICY_FAIL
E_CRITICAL_PRESENT == 11
E_HIGH_THRESHOLD == 12
E_MANIFEST_SIGN == 13
E_REQUIRED_OUTPUTS == 14
E_REPORT_SECTIONS == 15
E_SECRETS_IN_OUTPUTS == 16

\* The default of max_high_findings and max_medium_findings (lines 136, 142).
DEFAULT_MAX == 999999

(***************************************************************************)
(* Bounds of the model.                                                    *)
(***************************************************************************)
\* Longest findings list, in runs.
MaxRuns == 2
\* Length of the long run of findings.
BigRun == 999999
\* Longest findings list the severity aggregator is applied to on its own, in runs.
MaxFindings == 3

(***************************************************************************)
(* Text.                                                                   *)
(***************************************************************************)
UpperLetters ==
    << "A", "B", "C", "D", "E", "F", "G", "H", "I", "J", "K", "L", "M",
       "N", "O", "P", "Q", "R", "S", "T", "U", "V", "W", "X", "Y", "Z" >>

LowerLetters ==
    << "a", "b", "c", "d", "e", "f", "g", "h", "i", "j", "k", "l", "m",
       "n", "o", "p", "q", "r", "s", "t", "u", "v", "w", "x", "y", "z" >>

Whitespace == { " ", "\n", "\t" }

\* The upper-case letter of each lower-case letter, and the other way round.
UpperOf ==
    [c \in { LowerLetters[i] : i \in 1..26 } |->
        UpperLetters[CHOOSE i \in 1..26 : LowerLetters[i] = c]]

LowerOf ==
    [c \in { UpperLetters[i] : i \in 1..26 } |->
        LowerLetters[CHOOSE i \in 1..26 : UpperLetters[i] = c]]

UpperChar(c) == IF c \in DOMAIN UpperOf THEN UpperOf[c] ELSE c

LowerChar(c) == IF c \in DOMAIN LowerOf THEN LowerOf[c] ELSE c

\* str.upper()
Upper(s) == [i \in 1..Len(s) |-> UpperChar(s[i])]

\* str.lower()
Lower(s) == [i \in 1..Len(s) |-> LowerChar(s[i])]

RECURSIVE LStrip(_)
LStrip(s) == IF s # << >> /\ Head(s) \in Whitespace THEN LStrip(Tail(s)) ELSE s

RECURSIVE RStrip(_)
RStrip(s) == IF s # << >> /\ s[Len(s)] \in Whitespace
             THEN RStrip(SubSeq(s, 1, Len(s) - 1))
             ELSE s

\* str.strip()
Strip(s) == RStrip(LStrip(s))

\* needle in hay
Contains(hay, needle) ==
    \E i \in 0..(Len(hay) - Len(needle)) :
        SubSeq(hay, i + 1, i + Len(needle)) = needle

(***************************************************************************)
(* Severities (line 18).                                                   *)
(***************************************************************************)
CRITICAL == << "C", "R", "I", "T", "I", "C", "A", "L" >>
HIGH == << "H", "I", "G", "H" >>
MEDIUM == << "M", "E", "D", "I", "U", "M" >>
LOW == << "L", "O", "W" >>
INFO == << "I", "N", "F", "O" >>
UNSPECIFIED == << "U", "N", "S", "P", "E", "C", "I", "F", "I", "E", "D" >>

SEV_ORDER == << CRITICAL, HIGH, MEDIUM, LOW, INFO, UNSPECIFIED >>

Categories == { SEV_ORDER[i] : i \in 1..Len(SEV_ORDER) }

\* {s: 0 for s in SEV_ORDER}
ZeroCounts == [s \in Categories |-> 0]

(***************************************************************************)
(* JSON values as the gate meets them.  A finding is an element of the     *)
(* findings list: a record (dict) whose severity field is missing, null or *)
(* a string, or an element that is no record at all.                       *)
(***************************************************************************)
SevStr(s) == [t |-> "str", s |-> s]
SevNull == [t |-> "null", s |-> << >>]
SevMissing == [t |-> "missing", s |-> << >>]
\* A severity that is no string: s is what str() makes of it.
SevOther(s) == [t |-> "other", s |-> s]

Dict(sev) == [shape |-> "dict", severity |-> sev]
NotDict == [shape |-> "other", severity |-> SevMissing]

\* str(f.get("severity", "UNSPECIFIED"))
SeverityText(f) ==
    CASE f.severity.t = "missing" -> UNSPECIFIED
      [] f.severity.t = "null" -> << "N", "o", "n", "e" >>
      [] OTHER -> f.severity.s

\* NormalizeSeverity without strip().
NormalizeSeverity_NoStrip(f) ==
    LET s == Upper(SeverityText(f))
    IN  IF s \notin Categories THEN UNSPECIFIED ELSE s

\* NormalizeSeverity without upper().
NormalizeSeverity_NoUpper(f) ==
    LET s == Strip(SeverityText(f))
    IN  IF s \notin Categories THEN UNSPECIFIED ELSE s

\* Lines 37-39: the category one finding is counted under.
NormalizeSeverity(f) ==
    LET s == Strip(Upper(SeverityText(f)))
    IN  IF s \notin Categories THEN UNSPECIFIED ELSE s

\* CountFrom without lines 38-39: a severity that is no category is not counted.
RECURSIVE CountFrom_DropsUnknown(_, _)
CountFrom_DropsUnknown(findings, counts) ==
    IF findings = << >> THEN [raised |-> FALSE, counts |-> counts]
    ELSE LET r == Head(findings)
         IN  IF r.f.shape # "dict"
             THEN [raised |-> TRUE, counts |-> counts]
             ELSE LET s == Strip(Upper(SeverityText(r.f)))
                  IN  CountFrom_DropsUnknown(Tail(findings),
                         IF s \in Categories
                         THEN [counts EXCEPT ![s] = counts[s] + r.n]
                         ELSE counts)

\* Lines 34-41 over a run-length encoded list; f.get raises AttributeError on
\* an element that is no dict, and the call then returns nothing.
RECURSIVE CountFrom(_, _)
CountFrom(findings, counts) ==
    IF findings = << >> THEN [raised |-> FALSE, counts |-> counts]
    ELSE LET r == Head(findings)
         IN  IF r.f.shape # "dict"
             THEN [raised |-> TRUE, counts |-> counts]
             ELSE LET s == NormalizeSeverity(r.f)
                  IN  CountFrom(Tail(findings),
                                [counts EXCEPT ![s] = counts[s] + r.n])

count_severities(findings) == CountFrom(findings, ZeroCounts)


(***************************************************************************)
(* Policy values.  A field of release_gate is absent or holds a JSON       *)
(* scalar; Truthy is Python's truth value of it.                           *)
(***************************************************************************)
Absent == [t |-> "absent", b |-> FALSE, i |-> 0]
JBool(b) == [t |-> "bool", b |-> b, i |-> 0]
JNull == [t |-> "null", b |-> FALSE, i |-> 0]
JInt(i) == [t |-> "int", b |-> FALSE, i |-> i]

\* rg.get(field, default)
Get(v, default) == IF v.t = "absent" THEN default ELSE v

Truthy(v) ==
    CASE v.t = "bool" -> v.b
      [] v.t = "int" -> v.i # 0
      [] OTHER -> FALSE

\* A list-valued field: absent, or the list.
NoList == [set |-> FALSE, v |-> << >>]
List(v) == [set |-> TRUE, v |-> v]

\* rg.get(field, default) or []
GetList(l, default) == IF l.set THEN l.v ELSE default

(***************************************************************************)
(* The artifacts of one mode's output directory (lines 97-147) and a file  *)
(* that only required_files can name.                                      *)
(***************************************************************************)
F_Extra == "a.json"
F_Pre == "policy_report.json"
F_Post == "policy_report_post.json"
F_Signer == "manifest_signer.txt"
F_Sig == "manifest.sig"
F_Findings == "extracted_findings.json"
F_Report == "consolidated_security_report.md"

Paths == { F_Extra, F_Pre, F_Post, F_Signer, F_Sig, F_Findings, F_Report }

(***************************************************************************)
(* The inputs the model draws from.                                        *)
(***************************************************************************)
S_MiniSign == << "M", "i", "n", "i", "S", "i", "g", "n" >>
S_minisign == << "m", "i", "n", "i", "s", "i", "g", "n" >>
S_openssl == << "o", "p", "e", "n", "s", "s", "l" >>
S_gpg == << "g", "p", "g" >>

S_Risks == << "R", "i", "s", "k", "s" >>
S_Fixes == << "F", "i", "x", "e", "s" >>

EnabledValues == { Absent, JBool(TRUE), JBool(FALSE), JNull, JInt(0) }
FlagValues == { Absent, JBool(TRUE), JBool(FALSE) }
RequiredFilesValues == { NoList, List(<< F_Extra, F_Findings >>) }
AllowedSignersValues == { NoList, List(<< Upper(S_gpg) >>) }
MaxHighValues == { Absent, JInt(1) }
MaxMediumValues == { Absent, JInt(0) }
SectionsValues == { NoList, List(<< S_Risks, S_Fixes >>) }

Policies ==
    [ enabled : EnabledValues,
      required_files : RequiredFilesValues,
      require_signed_manifest : FlagValues,
      allowed_signers : AllowedSignersValues,
      fail_on_critical : FlagValues,
      max_high_findings : MaxHighValues,
      max_medium_findings : MaxMediumValues,
      required_report_sections : SectionsValues ]

Selectors == { "tokyo", "ny", "both" }

\* What a read of a JSON policy report finds: no file, text that is no JSON,
\* JSON that is no object, or an object with its status.
NoFile == [file |-> "absent", kind |-> "none", status |-> "none"]
BadJson == [file |-> "malformed", kind |-> "none", status |-> "none"]
NotObject == [file |-> "ok", kind |-> "other", status |-> "none"]
Report(status) == [file |-> "ok", kind |-> "object", status |-> status]
Unread == [file |-> "unread", kind |-> "none", status |-> "none"]

PolicyReportFiles == { NoFile, BadJson, NotObject, Report("PASS"), Report("FAIL") }

\* manifest_signer.txt: no file, or its text.
NoText == [file |-> "absent", text |-> << >>]
Text(s) == [file |-> "ok", text |-> s]
UnreadText == [file |-> "unread", text |-> << >>]

SignerFiles ==
    { NoText,
      Text(<< " " >> \o S_MiniSign \o << "\n" >>),
      Text(S_gpg) }

ReportFiles ==
    { NoText,
      Text(<< "#", " " >> \o Upper(S_Risks) \o << "\n", "#", " " >> \o Lower(S_Fixes)),
      Text(<< "#", " " >> \o S_Risks),
      Text(<< "#" >>) }

\* extracted_findings.json: no file, no JSON, JSON that is no list, or a list.
Run(f, n) == [f |-> f, n |-> n]

RunPool ==
    { Run(Dict(SevStr(Lower(CRITICAL))), 1),
      Run(Dict(SevStr(<< " ", "H", "i", "g", "h" >>)), 1),
      Run(Dict(SevStr(HIGH)), BigRun),
      Run(Dict(SevStr(MEDIUM)), 1),
      Run(NotDict, 1) }

FindingsLists == UNION { [1..k -> RunPool] : k \in 0..MaxRuns }

NoFindings == [file |-> "absent", kind |-> "none", list |-> << >>]
BadFindings == [file |-> "malformed", kind |-> "none", list |-> << >>]
NotAList == [file |-> "ok", kind |-> "other", list |-> << >>]
Findings(l) == [file |-> "ok", kind |-> "list", list |-> l]
UnreadFindings == [file |-> "unread", kind |-> "none", list |-> << >>]

FindingsFiles ==
    { NoFindings, BadFindings, NotAList } \cup { Findings(l) : l \in FindingsLists }


(***************************************************************************)
(* State.                                                                  *)
(*   policy, selector  the release_gate mapping and --mode (lines 161-166) *)
(*   modes, mode       the modes still to evaluate, and the one in hand    *)
(*   pc                main: "loop", "gate" (inside gate_one_mode),        *)
(*                     "exited" (SystemExit) or "aborted" (an exception    *)
(*                     nothing catches)                                    *)
(*   stage             the position inside gate_one_mode                   *)
(*   exists            what the run has learnt of the mode's directory     *)
(*   pre, post, signer, findings, md   what each read found                *)
(*   counts, fails, warns              the locals of gate_one_mode         *)
(*   ran               the validators evaluated in this call, in order     *)
(*   code              main's variable code (line 173)                     *)
(*   summary           what summarize printed in this call                 *)
(*   printed           the lines printed by the run, by kind and mode      *)
(*   reads             the <<mode, path>> the run has looked at            *)
(*   results           the <<mode, code>> gate_one_mode has returned       *)
(*   exitcode, raised  the SystemExit code; the exception that ended it    *)
(***************************************************************************)
VARIABLES policy, selector, modes, mode, pc, stage, exists, pre, post, signer,
          findings, md, counts, fails, warns, ran, code, summary, printed,
          reads, results, exitcode, raised

vars == << policy, selector, modes, mode, pc, stage, exists, pre, post, signer,
           findings, md, counts, fails, warns, ran, code, summary, printed,
           reads, results, exitcode, raised >>

inputVars == << policy, selector >>
frameVars == << exists, pre, post, signer, findings, md, counts, fails, warns, ran >>
endVars == << exitcode, raised >>

Unseen == [p \in Paths |-> "unseen"]

NoSummary == [written |-> 0, counts |-> ZeroCounts, warns |-> << >>, fails |-> << >>]

Line(kind, m) == [kind |-> kind, mode |-> m]

\* Line 169.
ModesOf(sel) == IF sel = "both" THEN << "tokyo", "ny" >> ELSE << sel >>

Init ==
    /\ policy \in Policies
    /\ selector \in Selectors
    /\ modes = ModesOf(selector)
    /\ mode = "none"
    /\ pc = "loop"
    /\ stage = "none"
    /\ exists = Unseen
    /\ pre = Unread
    /\ post = Unread
    /\ signer = UnreadText
    /\ findings = UnreadFindings
    /\ md = UnreadText
    /\ counts = ZeroCounts
    /\ fails = << >>
    /\ warns = << >>
    /\ ran = << >>
    /\ code = PASS
    /\ summary = NoSummary
    /\ printed = << >>
    /\ reads = { }
    /\ results = << >>
    /\ exitcode = PASS
    /\ raised = "none"

(***************************************************************************)
(* The pieces of gate_one_mode.                                            *)
(***************************************************************************)
\* Enabled read where the field never is: the default always wins.
Enabled_DefaultOnly(rg) == Truthy(Get(Absent, JBool(TRUE)))

\* Line 80: rg.get("enabled", True), as a truth value.
Enabled(rg) == Truthy(Get(rg.enabled, JBool(TRUE)))

\* Line 89.
RequiredFiles(rg) == GetList(rg.required_files, << >>)

\* MissingFiles that looks at the first required file only.
MissingFiles_FirstOnly(required, there) ==
    IF required = << >> \/ Head(required) \in there THEN << >>
    ELSE << Head(required) >>

\* Line 90: the required files that are not among those there.
MissingFiles(required, there) == SelectSeq(required, LAMBDA f : f \notin there)

\* Lines 99 and 103.
StatusIsPass(report) == report.status = "PASS"

\* Line 110.
RequireSigned(rg) == Truthy(Get(rg.require_signed_manifest, JBool(TRUE)))

\* Line 111.
AllowedSigners(rg) ==
    LET l == GetList(rg.allowed_signers, << S_minisign, S_openssl >>)
    IN  { Lower(l[i]) : i \in 1..Len(l) }

\* SignerAllowed without the strip() of line 109.
SignerAllowed_NoStrip(rg, text) == Lower(text) \in AllowedSigners(rg)

\* Lines 109 and 112: the stripped text of the signer file, lower-cased, is allowed.
SignerAllowed(rg, text) == Lower(Strip(text)) \in AllowedSigners(rg)

\* Line 131.
CriticalBlocks(rg, c) ==
    Truthy(Get(rg.fail_on_critical, JBool(TRUE))) /\ c[CRITICAL] > 0

\* Line 136.
MaxHigh(rg) == Get(rg.max_high_findings, JInt(DEFAULT_MAX)).i

\* HighExceeds with >= for >.
HighExceeds_AtLeast(rg, c) == c[HIGH] >= MaxHigh(rg)

\* Line 137.
HighExceeds(rg, c) == c[HIGH] > MaxHigh(rg)

\* Line 142.
MaxMedium(rg) == Get(rg.max_medium_findings, JInt(DEFAULT_MAX)).i

\* MediumExceeds with >= for >.
MediumExceeds_AtLeast(rg, c) == c[MEDIUM] >= MaxMedium(rg)

\* Line 143.
MediumExceeds(rg, c) == c[MEDIUM] > MaxMedium(rg)

\* Line 148.
RequiredSections(rg) == GetList(rg.required_report_sections, << >>)

\* report_missing_sections without the two lower().
report_missing_sections_CaseSensitive(required, md_text) ==
    SelectSeq(required, LAMBDA sec : ~ Contains(md_text, sec))

\* Lines 55-61.
report_missing_sections(required, md_text) ==
    SelectSeq(required, LAMBDA sec : ~ Contains(Lower(md_text), Lower(sec)))

\* One line of fails or warns: its text and what it quotes.
Msg(text, files, sections, nums) ==
    [msg |-> text, files |-> files, sections |-> sections, nums |-> nums]


(***************************************************************************)
(* What one stage of gate_one_mode comes to, given what its reads find:    *)
(*   raised   the exception a read or a call raised, "none" otherwise      *)
(*   done     the stage returns from gate_one_mode, with code              *)
(*   msgs     what it appends to fails; warn, what it appends to warns     *)
(*   ran      the validators it evaluated, in order                        *)
(*   touched  the paths it looked at                                       *)
(*   counts   the severity counts the summary is given                     *)
(***************************************************************************)
Outcome(exn, done, c, msgs, ran_, touched) ==
    [raised |-> exn, done |-> done, code |-> c, msgs |-> msgs, warn |-> << >>,
     ran |-> ran_, touched |-> touched, counts |-> ZeroCounts]

Raises(exn, ran_, touched) == Outcome(exn, FALSE, PASS, << >>, ran_, touched)
Returns(c, msgs, ran_, touched) == Outcome("none", TRUE, c, msgs, ran_, touched)
Proceeds(ran_, touched) == Outcome("none", FALSE, PASS, << >>, ran_, touched)

\* Path.read_text and json.loads (lines 28-29): what a read raises.
ReadError(f) ==
    CASE f.file = "absent" -> "FileNotFoundError"
      [] f.file = "malformed" -> "JSONDecodeError"
      [] OTHER -> "none"

\* Lines 88-94.
FilesChecks(rg, there) ==
    LET required == RequiredFiles(rg)
        missing_files == MissingFiles(required, there)
        touched == { required[i] : i \in 1..Len(required) }
    IN  IF missing_files # << >>
        THEN Returns(E_REQUIRED_OUTPUTS,
                     << Msg("Missing required outputs", missing_files, << >>, << >>) >>,
                     << "files" >>, touched)
        ELSE Proceeds(<< "files" >>, touched)

\* PolicyChecks with the two status comparisons in the other order.
PolicyChecks_PostFirst(preF, postF) ==
    IF ReadError(preF) # "none"
    THEN Raises(ReadError(preF), << >>, { F_Pre })
    ELSE IF ReadError(postF) # "none"
    THEN Raises(ReadError(postF), << >>, { F_Pre, F_Post })
    ELSE IF postF.kind # "object" \/ preF.kind # "object"
    THEN Raises("AttributeError", << >>, { F_Pre, F_Post })
    ELSE IF ~ StatusIsPass(postF)
    THEN Returns(E_SECRETS_IN_OUTPUTS,
                 << Msg("policy_report_post.json status", << >>, << >>, << >>) >>,
                 << "post" >>, { F_Pre, F_Post })
    ELSE IF ~ StatusIsPass(preF)
    THEN Returns(E_POLICY_FAIL,
                 << Msg("policy_report.json status", << >>, << >>, << >>) >>,
                 << "post", "pre" >>, { F_Pre, F_Post })
    ELSE Proceeds(<< "post", "pre" >>, { F_Pre, F_Post })

\* Lines 96-106: both reports are read, then the statuses are compared.
PolicyChecks(preF, postF) ==
    IF ReadError(preF) # "none"
    THEN Raises(ReadError(preF), << >>, { F_Pre })
    ELSE IF ReadError(postF) # "none"
    THEN Raises(ReadError(postF), << >>, { F_Pre, F_Post })
    ELSE IF preF.kind # "object"
    THEN Raises("AttributeError", << >>, { F_Pre, F_Post })
    ELSE IF ~ StatusIsPass(preF)
    THEN Returns(E_POLICY_FAIL,
                 << Msg("policy_report.json status", << >>, << >>, << >>) >>,
                 << "pre" >>, { F_Pre, F_Post })
    ELSE IF postF.kind # "object"
    THEN Raises("AttributeError", << "pre" >>, { F_Pre, F_Post })
    ELSE IF ~ StatusIsPass(postF)
    THEN Returns(E_SECRETS_IN_OUTPUTS,
                 << Msg("policy_report_post.json status", << >>, << >>, << >>) >>,
                 << "pre", "post" >>, { F_Pre, F_Post })
    ELSE Proceeds(<< "pre", "post" >>, { F_Pre, F_Post })

\* Lines 108-120: the signer file is read, then signing is looked at.
ManifestChecks(rg, signerF, sigThere) ==
    IF ReadError(signerF) # "none"
    THEN Raises(ReadError(signerF), << >>, { F_Signer })
    ELSE IF ~ RequireSigned(rg)
    THEN Proceeds(<< >>, { F_Signer })
    ELSE IF ~ SignerAllowed(rg, signerF.text)
    THEN Returns(E_MANIFEST_SIGN,
                 << Msg("Manifest signer not allowed or missing", << >>, << >>, << >>) >>,
                 << "manifest" >>, { F_Signer })
    ELSE IF ~ sigThere
    THEN Returns(E_MANIFEST_SIGN,
                 << Msg("manifest.sig missing", << >>, << >>, << >>) >>,
                 << "manifest" >>, { F_Signer, F_Sig })
    ELSE Proceeds(<< "manifest" >>, { F_Signer, F_Sig })

\* Lines 122-144.
FindingsChecks(rg, findingsF) ==
    IF ReadError(findingsF) # "none"
    THEN Raises(ReadError(findingsF), << >>, { F_Findings })
    ELSE IF findingsF.kind # "list"
    THEN Returns(E_REQUIRED_OUTPUTS,
                 << Msg("extracted_findings.json is not a list", << >>, << >>, << >>) >>,
                 << "shape" >>, { F_Findings })
    ELSE LET counted == count_severities(findingsF.list)
             c == counted.counts
         IN  IF counted.raised
             THEN Raises("AttributeError", << "shape" >>, { F_Findings })
             ELSE IF CriticalBlocks(rg, c)
             THEN [Returns(E_CRITICAL_PRESENT,
                           << Msg("CRITICAL findings present", << >>, << >>, << >>) >>,
                           << "shape", "critical" >>, { F_Findings })
                   EXCEPT !.counts = c]
             ELSE IF HighExceeds(rg, c)
             THEN [Returns(E_HIGH_THRESHOLD,
                           << Msg("HIGH findings exceed threshold", << >>, << >>,
                                  << c[HIGH], MaxHigh(rg) >>) >>,
                           << "shape", "critical", "high" >>, { F_Findings })
                   EXCEPT !.counts = c]
             ELSE [Proceeds(<< "shape", "critical", "high", "medium" >>, { F_Findings })
                   EXCEPT !.counts = c,
                          !.warn = IF MediumExceeds(rg, c)
                                   THEN << Msg("MEDIUM findings exceed recommended threshold",
                                               << >>, << >>,
                                               << c[MEDIUM], MaxMedium(rg) >>) >>
                                   ELSE << >>]

\* ReportChecks that summarizes a failure with counts of zero.
ReportChecks_ZeroCounts(rg, mdF, c) ==
    IF ReadError(mdF) # "none"
    THEN Raises(ReadError(mdF), << >>, { F_Report })
    ELSE LET missing_sections == report_missing_sections(RequiredSections(rg), mdF.text)
         IN  IF missing_sections # << >>
             THEN Returns(E_REPORT_SECTIONS,
                          << Msg("Report missing sections", << >>, missing_sections, << >>) >>,
                          << "sections" >>, { F_Report })
             ELSE [Returns(PASS, << >>, << "sections" >>, { F_Report })
                   EXCEPT !.counts = c]

\* Lines 146-157.
ReportChecks(rg, mdF, c) ==
    IF ReadError(mdF) # "none"
    THEN Raises(ReadError(mdF), << >>, { F_Report })
    ELSE LET missing_sections == report_missing_sections(RequiredSections(rg), mdF.text)
         IN  IF missing_sections # << >>
             THEN [Returns(E_REPORT_SECTIONS,
                           << Msg("Report missing sections", << >>, missing_sections, << >>) >>,
                           << "sections" >>, { F_Report })
                   EXCEPT !.counts = c]
             ELSE [Returns(PASS, << >>, << "sections" >>, { F_Report })
                   EXCEPT !.counts = c]


(***************************************************************************)
(* Actions.                                                                *)
(***************************************************************************)
\* A read of path p can find f: the directory does not change under the run.
CanFind(p, f) ==
    /\ f.file = "absent" => exists[p] # "yes"
    /\ f.file # "absent" => exists[p] # "no"

CanBeThere(p, there) == exists[p] = "unseen" \/ exists[p] = (IF there THEN "yes" ELSE "no")

\* The stage ends as its outcome o says: an exception nothing catches ends
\* the run; a return goes through summarize (lines 63-76) first.
Finish(o, next) ==
    /\ ran' = ran \o o.ran
    /\ reads' = reads \cup { << mode, p >> : p \in o.touched }
    /\ counts' = o.counts
    /\ warns' = warns \o o.warn
    /\ fails' = fails \o o.msgs
    /\ IF o.raised # "none"
       THEN /\ raised' = o.raised
            /\ pc' = "aborted"
            /\ UNCHANGED << stage, code, summary, printed, exitcode >>
       ELSE IF o.done
       THEN /\ summary' = [written |-> summary.written + 1, counts |-> o.counts,
                           warns |-> warns', fails |-> fails']
            /\ printed' = Append(printed, Line("summary", mode))
            /\ code' = o.code
            /\ stage' = "returned"
            /\ UNCHANGED << pc, exitcode, raised >>
       ELSE /\ stage' = next
            /\ UNCHANGED << pc, code, summary, printed, exitcode, raised >>

\* Lines 172-173: the loop takes the next mode and calls gate_one_mode.
CallGate ==
    /\ pc = "loop"
    /\ modes # << >>
    /\ mode' = Head(modes)
    /\ modes' = Tail(modes)
    /\ pc' = "gate"
    /\ stage' = "enter"
    /\ UNCHANGED << inputVars, frameVars, code, summary, printed, reads, results, endVars >>

\* Lines 79-86.
GateEnter ==
    /\ pc = "gate"
    /\ stage = "enter"
    /\ IF ~ Enabled(policy)
       THEN /\ printed' = Append(printed, Line("disabled", mode))
            /\ code' = PASS
            /\ stage' = "returned"
       ELSE /\ stage' = "files"
            /\ UNCHANGED << printed, code >>
    /\ UNCHANGED << inputVars, modes, mode, pc, frameVars, summary, reads, results, endVars >>

\* Lines 88-94.
FilesStage ==
    /\ pc = "gate"
    /\ stage = "files"
    /\ \E there \in SUBSET Paths :
         LET o == FilesChecks(policy, there)
         IN  /\ there \subseteq o.touched
             /\ \A p \in o.touched : CanBeThere(p, p \in there)
             /\ exists' = [p \in Paths |->
                              IF p \in o.touched
                              THEN (IF p \in there THEN "yes" ELSE "no")
                              ELSE exists[p]]
             /\ Finish(o, "policy")
    /\ UNCHANGED << inputVars, modes, mode, pre, post, signer, findings, md, results >>

\* Lines 96-106.
PolicyStage ==
    /\ pc = "gate"
    /\ stage = "policy"
    /\ \E preF \in PolicyReportFiles, postF \in PolicyReportFiles :
         LET o == PolicyChecks(preF, postF)
         IN  /\ CanFind(F_Pre, preF)
             /\ CanFind(F_Post, postF)
             /\ pre' = preF
             /\ post' = IF F_Post \in o.touched THEN postF ELSE post
             /\ exists' = [p \in Paths |->
                              CASE p = F_Pre ->
                                     IF preF.file = "absent" THEN "no" ELSE "yes"
                                [] p = F_Post /\ F_Post \in o.touched ->
                                     IF postF.file = "absent" THEN "no" ELSE "yes"
                                [] OTHER -> exists[p]]
             /\ Finish(o, "manifest")
    /\ UNCHANGED << inputVars, modes, mode, signer, findings, md, results >>

\* Lines 108-120.
ManifestStage ==
    /\ pc = "gate"
    /\ stage = "manifest"
    /\ \E signerF \in SignerFiles, sigThere \in BOOLEAN :
         LET o == ManifestChecks(policy, signerF, sigThere)
         IN  /\ CanFind(F_Signer, signerF)
             /\ CanBeThere(F_Sig, sigThere)
             /\ signer' = signerF
             /\ exists' = [p \in Paths |->
                              CASE p = F_Signer ->
                                     IF signerF.file = "absent" THEN "no" ELSE "yes"
                                [] p = F_Sig /\ F_Sig \in o.touched ->
                                     IF sigThere THEN "yes" ELSE "no"
                                [] OTHER -> exists[p]]
             /\ Finish(o, "findings")
    /\ UNCHANGED << inputVars, modes, mode, pre, post, findings, md, results >>

\* Lines 122-144.
FindingsStage ==
    /\ pc = "gate"
    /\ stage = "findings"
    /\ \E findingsF \in FindingsFiles :
         LET o == FindingsChecks(policy, findingsF)
         IN  /\ CanFind(F_Findings, findingsF)
             /\ findings' = findingsF
             /\ exists' = [exists EXCEPT ![F_Findings] =
                              IF findingsF.file = "absent" THEN "no" ELSE "yes"]
             /\ Finish(o, "report")
    /\ UNCHANGED << inputVars, modes, mode, pre, post, signer, md, results >>

\* Lines 146-157.
ReportStage ==
    /\ pc = "gate"
    /\ stage = "report"
    /\ \E mdF \in ReportFiles :
         LET o == ReportChecks(policy, mdF, counts)
         IN  /\ CanFind(F_Report, mdF)
             /\ md' = mdF
             /\ exists' = [exists EXCEPT ![F_Report] =
                              IF mdF.file = "absent" THEN "no" ELSE "yes"]
             /\ Finish(o, "returned")
    /\ UNCHANGED << inputVars, modes, mode, pre, post, signer, findings, results >>

\* ShouldStop that lets every code through.
ShouldStop_Never(c) == c # c

\* Line 174.
ShouldStop(c) == c # PASS

\* Lines 174-176: gate_one_mode has returned; its frame is gone.
AfterGate ==
    /\ pc = "gate"
    /\ stage = "returned"
    /\ results' = Append(results, << mode, code >>)
    /\ IF ShouldStop(code)
       THEN /\ printed' = Append(printed, Line("fail", mode))
            /\ exitcode' = code
            /\ pc' = "exited"
       ELSE /\ pc' = "loop"
            /\ UNCHANGED << printed, exitcode >>
    /\ stage' = "none"
    /\ exists' = Unseen
    /\ pre' = Unread
    /\ post' = Unread
    /\ signer' = UnreadText
    /\ findings' = UnreadFindings
    /\ md' = UnreadText
    /\ counts' = ZeroCounts
    /\ fails' = << >>
    /\ warns' = << >>
    /\ ran' = << >>
    /\ summary' = NoSummary
    /\ UNCHANGED << inputVars, modes, mode, code, reads, raised >>

\* Lines 178-179.
MainPass ==
    /\ pc = "loop"
    /\ modes = << >>
    /\ printed' = Append(printed, Line("pass", "none"))
    /\ exitcode' = PASS
    /\ pc' = "exited"
    /\ UNCHANGED << inputVars, modes, mode, stage, frameVars, code, summary, reads,
                    results, raised >>

Next ==
    \/ CallGate
    \/ GateEnter
    \/ FilesStage
    \/ PolicyStage
    \/ ManifestStage
    \/ FindingsStage
    \/ ReportStage
    \/ AfterGate
    \/ MainPass

Spec == Init /\ [][Next]_vars


(***************************************************************************)
(* Properties.  They are stated over what the run has observed: the        *)
(* policy, what each read found, and what the directory is known to hold.  *)
(***************************************************************************)
GateReturned == pc = "gate" /\ stage = "returned"

\* The paths of the mode in hand that the run has looked at.
Looked == { p \in Paths : << mode, p >> \in reads }

\* Two texts are equal up to letter case.
SameText(a, b) == Upper(a) = Upper(b)

ListOf(l) == IF l.set THEN l.v ELSE << >>

IsOn(flag) == flag = Absent \/ flag = JBool(TRUE)

\* The number of findings of a list whose severity reads as category cat.
RECURSIVE SeverityTotal(_, _)
SeverityTotal(l, cat) ==
    IF l = << >> THEN 0
    ELSE (IF Head(l).f.shape = "dict" /\ Head(l).f.severity.t = "str"
             /\ SameText(Strip(Head(l).f.severity.s), cat)
          THEN Head(l).n ELSE 0)
         + SeverityTotal(Tail(l), cat)

AllDicts(l) == \A i \in 1..Len(l) : l[i].f.shape = "dict"

HighLimit == IF policy.max_high_findings = Absent THEN 999999
             ELSE policy.max_high_findings.i

SignerListed ==
    LET l == IF policy.allowed_signers.set THEN policy.allowed_signers.v
             ELSE << S_minisign, S_openssl >>
        name == Upper(Strip(signer.text))
    IN  \E i \in 1..Len(l) : Upper(l[i]) = name

\* The validators of the claim, each as a condition on what was observed.
FailsFiles ==
    \E i \in 1..Len(ListOf(policy.required_files)) :
        exists[ListOf(policy.required_files)[i]] = "no"
FailsPre == pre.file = "ok" /\ pre.status # "PASS"
FailsPost == post.file = "ok" /\ post.status # "PASS"
FailsManifest ==
    /\ signer.file = "ok"
    /\ IsOn(policy.require_signed_manifest)
    /\ (~ SignerListed \/ exists[F_Sig] = "no")
FailsShape == findings.file = "ok" /\ findings.kind # "list"
FailsCritical ==
    /\ findings.kind = "list"
    /\ IsOn(policy.fail_on_critical)
    /\ SeverityTotal(findings.list, CRITICAL) > 0
FailsHigh ==
    /\ findings.kind = "list"
    /\ SeverityTotal(findings.list, HIGH) > HighLimit
FailsSections ==
    /\ md.file = "ok"
    /\ LET text == Upper(md.text)
           sections == ListOf(policy.required_report_sections)
       IN  \E i \in 1..Len(sections) : ~ Contains(text, Upper(sections[i]))

\* The exit code of the first validator that fails, in the fixed order of
\* the validators; 0 when none fails.
FirstFailingCode ==
    IF FailsFiles THEN 14
    ELSE IF FailsPre THEN 10
    ELSE IF FailsPost THEN 16
    ELSE IF FailsManifest THEN 13
    ELSE IF FailsShape THEN 14
    ELSE IF FailsCritical THEN 11
    ELSE IF FailsHigh THEN 12
    ELSE IF FailsSections THEN 15
    ELSE 0

\* Some artifact the run read was missing, was no JSON, or had not the shape
\* the gate reads it with.
SomeReadFailed ==
    \/ pre.file \in { "absent", "malformed" } \/ (pre.file = "ok" /\ pre.kind # "object")
    \/ post.file \in { "absent", "malformed" } \/ (post.file = "ok" /\ post.kind # "object")
    \/ signer.file = "absent"
    \/ findings.file \in { "absent", "malformed" }
    \/ (findings.kind = "list" /\ ~ AllDicts(findings.list))
    \/ md.file = "absent"

\* C1: for an enabled mode, gate_one_mode returns the exit code of the first
\* failing validator in the order files (14), pre (10), post (16), manifest
\* (13), findings shape (14), critical (11), high (12), sections (15), and
\* PASS exactly when none fails; the run is cut short by an exception only
\* when a read found an artifact missing or ill-formed.
C1_FirstFailingDecides ==
    /\ (GateReturned /\ IsOn(policy.enabled)) =>
          /\ code = FirstFailingCode
          /\ code = 0 =>
                { "files", "pre", "post", "shape", "critical", "high", "sections" }
                    \subseteq { ran[i] : i \in 1..Len(ran) }
    /\ pc = "aborted" => SomeReadFailed

\* C1 witness: CRITICAL is present and HIGH is over its limit at once, and
\* the earlier of the two decides.
C1_Witness ==
    /\ GateReturned
    /\ FailsCritical
    /\ FailsHigh
    /\ code = 11

\* C2, as claimed: when policy_report.json has a status other than PASS the
\* mode ends in Failed(10), with that one message, whatever
\* policy_report_post.json holds.
C2_PreFailureEndsIn10 ==
    (pc \in { "gate", "aborted" } /\ pre.file = "ok" /\ pre.kind = "object"
        /\ pre.status # "PASS")
    => (GateReturned /\ code = 10 /\ Len(fails) = 1)

\* C3: when a required file is missing the mode returns 14, no later
\* validator is evaluated, no other artifact is looked at, and the only
\* failure recorded is the missing-outputs message.
C3_MissingRequiredFile ==
    (pc \in { "gate", "aborted" } /\ FailsFiles) =>
        /\ GateReturned
        /\ code = 14
        /\ ran = << "files" >>
        /\ Len(fails) = 1
        /\ fails[1].msg = "Missing required outputs"
        /\ fails[1].files =
              SelectSeq(ListOf(policy.required_files), LAMBDA f : exists[f] = "no")
        /\ Looked = { ListOf(policy.required_files)[i] :
                        i \in 1..Len(ListOf(policy.required_files)) }
        /\ pre = Unread /\ post = Unread /\ signer = UnreadText
        /\ findings = UnreadFindings /\ md = UnreadText

\* C3 witness: one of two required files is missing, the other is there.
C3_Witness ==
    /\ GateReturned
    /\ code = 14
    /\ exists[F_Extra] = "no"
    /\ exists[F_Findings] = "yes"
    /\ ran = << "files" >>

\* C4: with enabled = false every mode returns PASS before any validator
\* runs and without looking at any artifact.
C4_DisabledPasses ==
    policy.enabled = JBool(FALSE) =>
        /\ reads = { }
        /\ ran = << >>
        /\ exists = Unseen
        /\ stage \in { "none", "enter", "returned" }
        /\ pc # "aborted"
        /\ GateReturned => code = 0
        /\ \A i \in 1..Len(results) : results[i][2] = 0
        /\ pc = "exited" => exitcode = 0 /\ Len(results) = Len(ModesOf(selector))

\* C4 witness: the second mode of a disabled run has returned PASS.
C4_Witness ==
    /\ policy.enabled = JBool(FALSE)
    /\ selector = "both"
    /\ mode = "ny"
    /\ GateReturned
    /\ code = 0


\* The modes a selector resolves to, in order.
Resolved == IF selector = "both" THEN << "tokyo", "ny" >> ELSE << selector >>

\* C5: the modes are evaluated in order (both: tokyo, then ny); the first
\* mode that returns a code other than PASS ends the run with that code, and
\* no later mode is evaluated or looked at; the run exits 0 exactly when
\* every requested mode returned PASS.
C5_FailFastInOrder ==
    LET called == Len(Resolved) - Len(modes)
        n == Len(results)
    IN  /\ modes = SubSeq(Resolved, called + 1, Len(Resolved))
        /\ n <= called
        /\ \A i \in 1..n : results[i][1] = Resolved[i]
        /\ \A i \in 1..(n - 1) : results[i][2] = 0
        /\ \A r \in reads : \E i \in 1..called : r[1] = Resolved[i]
        /\ \A i \in 1..Len(printed) :
              printed[i].mode = "none" \/ \E j \in 1..called : printed[i].mode = Resolved[j]
        /\ (n > 0 /\ results[n][2] # 0) =>
              /\ pc = "exited"
              /\ exitcode = results[n][2]
              /\ called = n
              /\ printed[Len(printed)] = Line("fail", Resolved[n])
        /\ pc = "exited" =>
              /\ n > 0
              /\ exitcode = results[n][2]
              /\ (exitcode = 0) <=>
                    (n = Len(Resolved) /\ \A i \in 1..n : results[i][2] = 0)

\* C5 witness: under "both" the first mode failed and the run ended with its
\* code, the second mode untouched.
C5_Witness ==
    /\ selector = "both"
    /\ pc = "exited"
    /\ exitcode # 0
    /\ results = << << "tokyo", exitcode >> >>
    /\ modes = << "ny" >>
    /\ \A r \in reads : r[1] = "tokyo"

\* The policy with every field absent.
NoPolicy ==
    [ enabled |-> Absent, required_files |-> NoList,
      require_signed_manifest |-> Absent, allowed_signers |-> NoList,
      fail_on_critical |-> Absent, max_high_findings |-> Absent,
      max_medium_findings |-> Absent, required_report_sections |-> NoList ]

\* One failing outcome of each kind, as the stages of gate_one_mode compute it.
StageOutcomes ==
    { FilesChecks([NoPolicy EXCEPT !.required_files = List(<< F_Extra >>)], { }),
      PolicyChecks(Report("FAIL"), Report("PASS")),
      PolicyChecks(Report("PASS"), Report("FAIL")),
      ManifestChecks(NoPolicy, Text(S_gpg), TRUE),
      ManifestChecks(NoPolicy, Text(S_minisign), FALSE),
      FindingsChecks(NoPolicy, NotAList),
      FindingsChecks(NoPolicy, Findings(<< Run(Dict(SevStr(CRITICAL)), 1) >>)),
      FindingsChecks([NoPolicy EXCEPT !.max_high_findings = JInt(0)],
                     Findings(<< Run(Dict(SevStr(HIGH)), 1) >>)),
      ReportChecks([NoPolicy EXCEPT !.required_report_sections = List(<< S_Risks >>)],
                   Text(<< >>), ZeroCounts) }

\* The failure kinds, by message, with the code each is returned with.
FailureKindCodes ==
    { << o.msgs[1].msg, o.code >> : o \in { x \in StageOutcomes : x.done /\ x.code # PASS } }

FailureKinds ==
    { "Missing required outputs", "policy_report.json status",
      "policy_report_post.json status", "Manifest signer not allowed or missing",
      "manifest.sig missing", "extracted_findings.json is not a list",
      "CRITICAL findings present", "HIGH findings exceed threshold",
      "Report missing sections" }

\* The failure kinds that share a code.
SharedKinds ==
    { { "Missing required outputs", "extracted_findings.json is not a list" },
      { "Manifest signer not allowed or missing", "manifest.sig missing" } }

\* C6, as claimed: two distinct failure kinds never share an exit code.
C6_KindsNeverShareACode ==
    (GateReturned /\ code # 0) =>
        \A q \in FailureKindCodes : q[2] = code => q[1] = fails[1].msg

\* C6, amended: every failure kind has exactly one exit code, and two distinct
\* kinds have different codes except that a missing required file and a
\* findings artifact that is no list share 14, and a signer that is not
\* allowed and a missing signature file share 13.
C6_OneCodePerKind ==
    (GateReturned /\ code # 0) =>
        LET kinds == FailureKindCodes
        IN  /\ { q[1] : q \in kinds } = FailureKinds
            /\ Len(fails) = 1
            /\ fails[1].msg \in FailureKinds
            /\ code \in 10..16
            /\ \A q \in kinds :
                  /\ q[1] = fails[1].msg => q[2] = code
                  /\ (q[2] = code /\ q[1] # fails[1].msg) =>
                        { q[1], fails[1].msg } \in SharedKinds

\* C6 witness: a findings artifact that is no list fails with 14, the code of
\* a missing required file.
C6_Witness ==
    /\ GateReturned
    /\ code = 14
    /\ fails[1].msg = "extracted_findings.json is not a list"

\* C7: with signing required, a signer that is not in allowed_signers (up to
\* case and surrounding whitespace) fails with 13 without manifest.sig being
\* looked at, an allowed signer without manifest.sig fails with 13, and the
\* stage is passed only with an allowed signer and manifest.sig present.
C7_ManifestStage ==
    /\ (pc \in { "gate", "aborted" } /\ signer.file = "ok"
           /\ IsOn(policy.require_signed_manifest)) =>
          /\ ~ SignerListed =>
                GateReturned /\ code = 13 /\ exists[F_Sig] = "unseen" /\ F_Sig \notin Looked
          /\ SignerListed => exists[F_Sig] # "unseen"
          /\ (SignerListed /\ exists[F_Sig] = "no") => GateReturned /\ code = 13
          /\ (SignerListed /\ exists[F_Sig] = "yes") =>
                /\ ran[Len(ran)] # "manifest" \/ stage = "findings"
                /\ ~ (GateReturned /\ code = 13)
    /\ (GateReturned /\ code = 13) =>
          signer.file = "ok" /\ IsOn(policy.require_signed_manifest)

\* C7 witness: the signer gpg against the default allowed signers fails with
\* 13 and manifest.sig was not looked at.
C7_Witness ==
    /\ GateReturned
    /\ code = 13
    /\ policy.require_signed_manifest = JBool(TRUE)
    /\ policy.allowed_signers = NoList
    /\ signer.text = S_gpg
    /\ exists[F_Sig] = "unseen"

\* C8, as claimed: with require_signed_manifest false the outcome does not
\* depend on manifest_signer.txt, so the manifest stage never ends the run.
C8_ManifestStageSkipped ==
    policy.require_signed_manifest = JBool(FALSE) =>
        ~ (pc = "aborted" /\ stage = "manifest")

\* C9: with fail_on_critical on (the default) a well-formed findings list
\* with a finding whose severity reads CRITICAL in any letter case fails with
\* 11; with fail_on_critical false CRITICAL findings never fail the mode and
\* the HIGH check is evaluated.
C9_CriticalGate ==
    /\ (pc \in { "gate", "aborted" } /\ findings.kind = "list" /\ AllDicts(findings.list)) =>
          /\ (IsOn(policy.fail_on_critical) /\ SeverityTotal(findings.list, CRITICAL) > 0) =>
                GateReturned /\ code = 11 /\ ran[Len(ran)] = "critical"
          /\ policy.fail_on_critical = JBool(FALSE) =>
                /\ \E i \in 1..Len(ran) : ran[i] = "high"
                /\ ~ (GateReturned /\ code = 11)
    /\ (GateReturned /\ code = 11) =>
          /\ IsOn(policy.fail_on_critical)
          /\ SeverityTotal(findings.list, CRITICAL) > 0

\* C9 witness: one finding with severity "critical" in lower case, the flag
\* left at its default, and the mode fails with 11.
C9_Witness ==
    /\ GateReturned
    /\ code = 11
    /\ policy.fail_on_critical = Absent
    /\ findings.list = << Run(Dict(SevStr(Lower(CRITICAL))), 1) >>

HighRan == \E i \in 1..Len(ran) : ran[i] = "high"

\* C10, as claimed: with max_high_findings absent no number of HIGH findings
\* fails the check.
C10_AbsentLimitNeverFails ==
    policy.max_high_findings = Absent => ~ (GateReturned /\ code = 12)

\* C10, amended: when the HIGH check is reached the mode fails with 12
\* exactly when the HIGH count is greater than max_high_findings, which is
\* 999999 when absent; a count equal to the limit goes on to the MEDIUM check.
C10_HighThresholdStrict ==
    /\ (pc \in { "gate", "aborted" } /\ HighRan) =>
          /\ (GateReturned /\ code = 12) <=> (SeverityTotal(findings.list, HIGH) > HighLimit)
          /\ SeverityTotal(findings.list, HIGH) <= HighLimit =>
                \E i \in 1..Len(ran) : ran[i] = "medium"
    /\ (GateReturned /\ code = 12) => HighRan

\* C10 witness: max_high_findings is absent, there are exactly 999999 HIGH
\* findings, and the evaluation went past the HIGH check.
C10_Witness ==
    /\ pc = "gate"
    /\ policy.max_high_findings = Absent
    /\ findings.kind = "list"
    /\ SeverityTotal(findings.list, HIGH) = 999999
    /\ HighRan
    /\ stage = "report"

MediumRan == \E i \in 1..Len(ran) : ran[i] = "medium"

MediumLimit == IF policy.max_medium_findings = Absent THEN 999999
               ELSE policy.max_medium_findings.i

\* The list l without its MEDIUM findings.
WithoutMedium(l) ==
    SelectSeq(l, LAMBDA r : r.f.shape # "dict" \/ NormalizeSeverity(r.f) # MEDIUM)

\* The policy without its max_medium_findings.
WithoutMediumLimit == [policy EXCEPT !.max_medium_findings = Absent]

\* C11: the MEDIUM threshold is advisory.  The way the findings stage ends
\* (exception or return, code, failure recorded) and the code the report
\* stage returns are those of the same run with max_medium_findings taken
\* out of the policy and every MEDIUM finding taken out of the list, so no
\* change of either changes the exit code; when the MEDIUM check is reached
\* a warning is recorded exactly when the MEDIUM count is greater than the
\* limit, it is the only warning, and no failure is recorded with it.
C11_MediumIsAdvisory ==
    /\ (pc \in { "gate", "aborted" } /\ findings.kind = "list" /\ md = UnreadText) =>
          LET p == FindingsChecks(WithoutMediumLimit, Findings(WithoutMedium(findings.list)))
          IN  /\ p.raised = "none" <=> pc = "gate"
              /\ p.raised # "none" => raised = p.raised
              /\ p.done <=> GateReturned
              /\ GateReturned => (p.code = code /\ p.msgs = fails)
              /\ p.warn = << >>
    /\ (GateReturned /\ md.file = "ok") =>
          ReportChecks(WithoutMediumLimit, md, ZeroCounts).code = code
    /\ (pc \in { "gate", "aborted" } /\ MediumRan) =>
          /\ Len(warns) = (IF SeverityTotal(findings.list, MEDIUM) > MediumLimit THEN 1 ELSE 0)
          /\ warns # << >> =>
                /\ warns[1].msg = "MEDIUM findings exceed recommended threshold"
                /\ warns[1].nums = << SeverityTotal(findings.list, MEDIUM), MediumLimit >>
          /\ stage = "report" => fails = << >>
    /\ warns # << >> => MediumRan

\* C11 witness: max_medium_findings is 0, there is a MEDIUM finding, the one
\* warning was recorded and the mode returned PASS.
C11_Witness ==
    /\ GateReturned
    /\ code = 0
    /\ policy.max_medium_findings = JInt(0)
    /\ SeverityTotal(findings.list, MEDIUM) > 0
    /\ Len(warns) = 1
    /\ summary.warns = warns

SectionsRan == \E i \in 1..Len(ran) : ran[i] = "sections"

\* The required sections that the report does not hold, whatever the letter
\* case, in the order of the policy.
SectionsNotInReport ==
    LET text == Upper(md.text)
    IN  SelectSeq(ListOf(policy.required_report_sections),
                  LAMBDA sec : ~ Contains(text, Upper(sec)))

\* C12: the report-sections validator is evaluated only after every earlier
\* validator passed; with the report read, the mode returns 15 exactly when a
\* required section is no case-insensitive substring of the report, and PASS
\* otherwise; the failure quotes exactly the sections that are not in the
\* report, in policy order; with no required sections 15 is never returned.
C12_SectionsValidatorLast ==
    /\ (pc \in { "gate", "aborted" } /\ md # UnreadText) =>
          /\ ~ FailsFiles /\ ~ FailsPre /\ ~ FailsPost /\ ~ FailsManifest
          /\ ~ FailsShape /\ ~ FailsCritical /\ ~ FailsHigh
          /\ pre.file = "ok" /\ post.file = "ok" /\ signer.file = "ok"
          /\ findings.kind = "list"
          /\ SelectSeq(ran, LAMBDA v : v \notin { "manifest", "sections" }) =
                << "files", "pre", "post", "shape", "critical", "high", "medium" >>
    /\ (pc \in { "gate", "aborted" } /\ md.file = "ok") =>
          /\ GateReturned
          /\ SectionsRan
          /\ code = (IF SectionsNotInReport # << >> THEN 15 ELSE 0)
          /\ code = 15 =>
                /\ Len(fails) = 1
                /\ fails[1].msg = "Report missing sections"
                /\ fails[1].sections = SectionsNotInReport
          /\ code = 0 => fails = << >>
    /\ (GateReturned /\ code = 15) =>
          /\ SectionsRan
          /\ md.file = "ok"
          /\ ListOf(policy.required_report_sections) # << >>

\* C12 witness: the report holds the first required section in another
\* letter case and not the second, and the mode returns 15 quoting the second.
C12_Witness ==
    /\ GateReturned
    /\ code = 15
    /\ md.text = << "#", " " >> \o S_Risks
    /\ policy.required_report_sections = List(<< S_Risks, S_Fixes >>)
    /\ fails[1].sections = << S_Fixes >>

(***************************************************************************)
(* The severity aggregator on its own: count_severities (lines 34-41)      *)
(* applied to lists built from findings of every shape.  The list is held  *)
(* in findings, the mapping returned in counts, the exception in raised.   *)
(***************************************************************************)
S_Wobble == << "W", "O", "B", "B", "L", "E" >>

AggPool ==
    { Run(Dict(SevStr(HIGH)), 1),
      Run(Dict(SevStr(<< " ", "h", "i", "g", "h", " " >>)), 1),
      Run(Dict(SevStr(<< "H", "i", "g", "h" >>)), 3),
      Run(Dict(SevStr(<< "H", "I", " ", "G", "H" >>)), 1),
      Run(Dict(SevStr(<< "\t" >> \o Lower(CRITICAL) \o << "\n" >>)), 1),
      Run(Dict(SevStr(Lower(MEDIUM))), 1),
      Run(Dict(SevStr(LOW)), 1),
      Run(Dict(SevStr(<< "I", "n", "f", "o" >>)), 1),
      Run(Dict(SevStr(Lower(UNSPECIFIED))), 1),
      Run(Dict(SevStr(S_Wobble)), 1),
      Run(Dict(SevStr(<< >>)), 1),
      Run(Dict(SevNull), 1),
      Run(Dict(SevMissing), 1),
      Run(Dict(SevOther(<< "5" >>)), 1),
      Run(NotDict, 1) }

AggInit ==
    /\ policy = NoPolicy
    /\ selector = "tokyo"
    /\ modes = << >>
    /\ mode = "none"
    /\ pc = "building"
    /\ stage = "none"
    /\ exists = Unseen
    /\ pre = Unread
    /\ post = Unread
    /\ signer = UnreadText
    /\ findings = Findings(<< >>)
    /\ md = UnreadText
    /\ counts = ZeroCounts
    /\ fails = << >>
    /\ warns = << >>
    /\ ran = << >>
    /\ code = PASS
    /\ summary = NoSummary
    /\ printed = << >>
    /\ reads = { }
    /\ results = << >>
    /\ exitcode = PASS
    /\ raised = "none"

\* The caller's list grows by one run of findings.
AddFinding ==
    /\ pc = "building"
    /\ Len(findings.list) < MaxFindings
    /\ \E r \in AggPool : findings' = Findings(Append(findings.list, r))
    /\ UNCHANGED << inputVars, modes, mode, pc, stage, exists, pre, post, signer, md,
                    counts, fails, warns, ran, code, summary, printed, reads, results,
                    endVars >>

\* Line 129: counts = count_severities(findings).
CountSeverities ==
    /\ pc = "building"
    /\ LET counted == count_severities(findings.list)
       IN  /\ counts' = IF counted.raised THEN counts ELSE counted.counts
           /\ raised' = IF counted.raised THEN "AttributeError" ELSE "none"
    /\ pc' = "counted"
    /\ UNCHANGED << inputVars, modes, mode, stage, exists, pre, post, signer, findings,
                    md, fails, warns, ran, code, summary, printed, reads, results,
                    exitcode >>

AggNext == AddFinding \/ CountSeverities

SpecAgg == AggInit /\ [][AggNext]_vars

\* The length of the list a run-length encoded list stands for.
RECURSIVE ListLen(_)
ListLen(l) == IF l = << >> THEN 0 ELSE Head(l).n + ListLen(Tail(l))

\* The lists that hold the elements of l in another order.
Reorderings(l) ==
    { [i \in 1..Len(l) |-> l[q[i]]] : q \in Permutations(1..Len(l)) }

Counted == pc = "counted" /\ raised = "none"

\* C13: the mapping count_severities returns has exactly the six categories
\* as its keys, every count is a natural number, the counts sum to the length
\* of the list, and the same list in any other order gives the same mapping.
C13_CountsAreTotal ==
    Counted =>
        /\ DOMAIN counts = { CRITICAL, HIGH, MEDIUM, LOW, INFO, UNSPECIFIED }
        /\ \A s \in DOMAIN counts : counts[s] \in Nat
        /\ counts[CRITICAL] + counts[HIGH] + counts[MEDIUM] + counts[LOW]
              + counts[INFO] + counts[UNSPECIFIED] = ListLen(findings.list)
        /\ \A l \in Reorderings(findings.list) :
              count_severities(l) = [raised |-> FALSE, counts |-> counts]

\* C13 witness: a list of three different severities, one of them no
\* category, counted in full.
C13_Witness ==
    /\ Counted
    /\ Len(findings.list) = 3
    /\ counts[HIGH] = 1
    /\ counts[LOW] = 1
    /\ counts[UNSPECIFIED] = 1
    /\ findings.list[1].f.severity = SevStr(S_Wobble)

\* The number of elements of a list that are no record, or a record whose
\* severity is missing, null or no string.
RECURSIVE MalformedTotal(_)
MalformedTotal(l) ==
    IF l = << >> THEN 0
    ELSE (IF Head(l).f.shape # "dict" \/ Head(l).f.severity.t # "str"
          THEN Head(l).n ELSE 0)
         + MalformedTotal(Tail(l))

\* C14, as claimed: count_severities completes on every list, whatever the
\* shape of its elements, and counts every malformed element under
\* UNSPECIFIED.
C14_NeverRaises ==
    pc = "counted" =>
        /\ raised = "none"
        /\ counts[UNSPECIFIED] >= MalformedTotal(findings.list)

\* C15: a severity that differs from a category name only in letter case or
\* surrounding whitespace is counted under that category, and every other
\* value under UNSPECIFIED.
C15_SeverityNormalization ==
    Counted =>
        /\ \A cat \in { CRITICAL, HIGH, MEDIUM, LOW, INFO } :
              counts[cat] = SeverityTotal(findings.list, cat)
        /\ counts[UNSPECIFIED] =
              ListLen(findings.list)
              - SeverityTotal(findings.list, CRITICAL) - SeverityTotal(findings.list, HIGH)
              - SeverityTotal(findings.list, MEDIUM) - SeverityTotal(findings.list, LOW)
              - SeverityTotal(findings.list, INFO)

\* C15 witness: "HIGH", " high " and three times "High" are five HIGH
\* findings and nothing else.
C15_Witness ==
    /\ Counted
    /\ findings.list = << Run(Dict(SevStr(HIGH)), 1),
                          Run(Dict(SevStr(<< " ", "h", "i", "g", "h", " " >>)), 1),
                          Run(Dict(SevStr(<< "H", "i", "g", "h" >>)), 3) >>
    /\ counts = [ZeroCounts EXCEPT ![HIGH] = 5]

\* The number of summaries the run has printed for mode m.
SummariesOf(m) ==
    Cardinality({ i \in 1..Len(printed) : printed[i] = Line("summary", m) })

\* C16, as claimed: every evaluation of a mode that returns, the one cut
\* short by enabled = false included, has printed exactly one summary, and
\* the overall pass or fail line is printed after it, last before the exit.
C16_SummaryOncePerEvaluation ==
    /\ GateReturned => SummariesOf(mode) = 1
    /\ \A i \in 1..Len(results) : SummariesOf(results[i][1]) = 1
    /\ pc = "exited" =>
          /\ Len(printed) >= 2
          /\ printed[Len(printed)].kind \in { "pass", "fail" }
          /\ printed[Len(printed) - 1].kind = "summary"

\* The severity counts of the findings list the mode read, as the aggregator
\* returns them.
RealCounts == count_severities(findings.list).counts

\* C17: a failure keeps the diagnostics gathered so far.  The summary of an
\* enabled mode holds the failures and warnings recorded; a mode that fails
\* at the report sections after the MEDIUM warning returns 15 with that
\* warning and the real counts in its summary; a failure at the critical or
\* the high gate is summarized with the real counts, and a failure of any
\* earlier stage with six counts of zero.
C17_FailureKeepsDiagnostics ==
    (GateReturned /\ Enabled(policy)) =>
        /\ summary.written = 1
        /\ summary.fails = fails
        /\ summary.warns = warns
        /\ code \in { 11, 12, 15 } => summary.counts = RealCounts
        /\ code \in { 10, 13, 14, 16 } =>
              /\ summary.counts = ZeroCounts
              /\ summary.warns = << >>
        /\ (code = 15 /\ summary.counts[MEDIUM] > MediumLimit) =>
              /\ Len(summary.warns) = 1
              /\ summary.warns[1].msg = "MEDIUM findings exceed recommended threshold"
              /\ Len(summary.fails) = 1
              /\ summary.fails[1].msg = "Report missing sections"

\* C17 witness: the MEDIUM warning was recorded, the report lacks a section,
\* and the summary of the failure holds the warning and a MEDIUM count.
C17_Witness ==
    /\ GateReturned
    /\ code = 15
    /\ Len(summary.warns) = 1
    /\ summary.counts[MEDIUM] = 1
    /\ summary.counts[HIGH] = 1
    /\ Len(summary.fails) = 1

\* C18, as claimed: a mode is cut short to PASS without running a validator
\* exactly when enabled is the boolean false; with enabled absent, true or any
\* other value the validators run.
C18_OnlyFalseBypasses ==
    GateReturned =>
        /\ (ran = << >>) <=> (policy.enabled = JBool(FALSE))
        /\ (printed[Len(printed)] = Line("disabled", mode)) <=> (policy.enabled = JBool(FALSE))

\* Some artifact the run read was absent, was no JSON, or was JSON of another
\* top-level shape than the gate reads it with.
SomeArtifactUnreadable ==
    \/ pre.file \in { "absent", "malformed" } \/ (pre.file = "ok" /\ pre.kind # "object")
    \/ post.file \in { "absent", "malformed" } \/ (post.file = "ok" /\ post.kind # "object")
    \/ signer.file = "absent"
    \/ findings.file \in { "absent", "malformed" }
    \/ md.file = "absent"

\* Some artifact the run read was absent or was no JSON.
SomeArtifactMissing ==
    \/ pre.file \in { "absent", "malformed" }
    \/ post.file \in { "absent", "malformed" }
    \/ signer.file = "absent"
    \/ findings.file \in { "absent", "malformed" }
    \/ md.file = "absent"

\* C19, as claimed: an evaluation of an enabled mode ends in PASS, in a code
\* of 10..16, or in an abort; it aborts exactly when an artifact read at the
\* stage reached is absent or cannot be parsed (read here in the claim's
\* favour: an absent artifact or one that is no JSON always aborts, and an
\* abort always has such an artifact or one of another top-level shape than
\* the gate reads), and then no code is returned, no summary is written for
\* the mode and no later mode is evaluated.
C19_AbortOnlyOnUnreadableArtifact ==
    /\ GateReturned => code \in { 0, 10, 11, 12, 13, 14, 15, 16 }
    /\ (pc \in { "gate", "aborted" } /\ SomeArtifactMissing) => pc = "aborted"
    /\ pc = "aborted" => SomeArtifactUnreadable
    /\ pc = "aborted" =>
          /\ Enabled(policy)
          /\ SummariesOf(mode) = 0
          /\ summary.written = 0
          /\ \A i \in 1..Len(results) : results[i][1] # mode /\ results[i][2] = 0
          /\ \A r \in reads : r[1] = mode \/ \E i \in 1..Len(results) : results[i][1] = r[1]
          /\ ~ ENABLED Next

=============================================================================
